---- MODULE Spec2Model ----
(***************************************************************************)
(* Realtime synchronization client of the chat frontend.                   *)
(*                                                                         *)
(*   WebSocketService (services/websocket.js, the singleton wsService):    *)
(*     socket, reconnectAttempts, the three handler registries, connect,   *)
(*     disconnect, sendMessage, sendTyping, sendReadReceipt and the        *)
(*     onopen / onmessage / onerror / onclose callbacks of every socket    *)
(*     it created.                                                         *)
(*   ChatWindow (components/ChatWindow.jsx): the React state of the one    *)
(*     mounted ChatWindow (messages, typingUsers, loading, error,          *)
(*     connectionStatus, typingTimeoutRef), its effect on [chatRoom],      *)
(*     loadMessages, handleSendMessage, handleTyping and the listeners it  *)
(*     registers.                                                          *)
(*                                                                         *)
(* The browser's event loop runs one callback at a time, so every action   *)
(* below is one whole callback.  Time is modelled by Tick, which advances  *)
(* the clock by TickMs; a setTimeout callback may run once its delay has   *)
(* elapsed.                                                                *)
(***************************************************************************)
EXTENDS Integers, Sequences, FiniteSets, TLC

(***************************************************************************)
(* Bounds of the model                                                     *)
(***************************************************************************)
MaxSockets == 6      \* WebSocket objects created in one behaviour
MaxLive    == 2      \* the same, where typing is followed (SpecTyping)
MaxSelects == 2      \* conversation selections made by the user
MaxMsgId   == 3      \* message ids the server hands out
MaxView    == 2      \* length of the messages state
MaxPending == 1      \* HTTP requests of one kind in flight
MaxKeys    == 3      \* keystrokes counted within one typing burst
TickMs     == 1000   \* granularity of the clock
MaxHandles == 2      \* unsubscribe functions held by callers of the service

(***************************************************************************)
(* Program constants                                                       *)
(***************************************************************************)
maxReconnectAttempts == 5
reconnectDelay       == 3000
typingStopDelay      == 3000

Me    == 1           \* currentUser.id
Other == 2           \* id of the other participant
NoRoom == 0          \* chatRoom is null
Rooms  == {1, 2}
Tokens == {"t1"}
Texts  == {"a", "b"}   \* texts a pushed message may carry
Stored == {"a"}        \* texts of the messages the backend stores
MsgIds == 1..MaxMsgId

\* The backend's data: the conversation a message id belongs to and its
\* author never change.  Conversation 1 holds the other participant's
\* messages, conversation 2 is the one the user writes in.
RoomOf(i)   == IF i <= 2 THEN 1 ELSE 2
SenderOf(i) == IF i <= 2 THEN Other ELSE Me

Msg(i, t, r) == [id |-> i, sender |-> SenderOf(i), text |-> t, is_read |-> r]

\* The backend hands out ids in the order in which it creates messages:
\* the order of the timestamps is the order of the ids.
Timestamp(m) == m.id

Max(a, b) == IF a > b THEN a ELSE b

VARIABLES
  ws,               \* the wsService object: socket, reconnectAttempts, registries
  sockets,          \* every WebSocket created: <<[roomId, token, readyState]>>
  timers,           \* pending setTimeout callbacks, in the order they were set
  mounted,          \* the ChatWindow is mounted
  chatRoom,         \* prop chatRoom.id (NoRoom when null)
  messages,         \* useState messages
  typingUsers,      \* useState typingUsers
  loading,          \* useState loading
  error,            \* useState error
  connectionStatus, \* useState connectionStatus
  typingTimeoutRef, \* useRef typingTimeoutRef: FALSE while null
  loads,            \* messageAPI.getByChatRoom requests in flight
  sends,            \* messageAPI.send requests in flight
  selects,          \* number of conversation selections so far
  created,          \* ids of the user's own messages the backend has created
  lastStep,         \* what the most recent callback did (observation)
  hist              \* history of the behaviour (observation)

vars == <<ws, sockets, timers, mounted, chatRoom, messages, typingUsers,
          loading, error, connectionStatus, typingTimeoutRef, loads, sends,
          selects, created, lastStep, hist>>

compVars == <<mounted, chatRoom, messages, typingUsers, loading, error,
              connectionStatus, typingTimeoutRef, loads, sends, selects>>

(***************************************************************************)
(* The backend's message ids                                               *)
(***************************************************************************)
\* The ids that exist on the backend: those of the other user's messages,
\* and those created for the user's own sends.
Exists(i) == SenderOf(i) # Me \/ i \in created

\* The backend gives a message the user sends an id no message had before:
\* i is the id of the message created for a send made in conversation r.
Fresh(i, r) == i \in MsgIds /\ SenderOf(i) = Me /\ RoomOf(i) = r /\ i \notin created

(***************************************************************************)
(* Observation of a step: what the callback that just ran was given and    *)
(* what it wrote to a socket.                                              *)
(***************************************************************************)
NoMsg == [id |-> 0, sender |-> 0, text |-> "", is_read |-> FALSE]

\* JavaScript values passed as a room id: null, undefined, a string, a
\* number, NaN
JsNull      == [t |-> "null", s |-> "", n |-> 0]
JsUndefined == [t |-> "undefined", s |-> "", n |-> 0]
JsNaN       == [t |-> "NaN", s |-> "", n |-> 0]
JsString(x) == [t |-> "string", s |-> x, n |-> 0]
JsNumber(k) == [t |-> "number", s |-> "", n |-> k]

\* A response body that is not a list, and a call of getByChatRoom that
\* has not returned
NoBody == [kind |-> "null", list |-> <<>>]
NoCall == [roomId |-> JsUndefined, body |-> NoBody, requested |-> FALSE,
           outcome |-> "pending", value |-> NoBody]

\* no typing frame
NoTyping == [user_id |-> 0, username |-> 0, is_typing |-> FALSE]

Step(op) ==
  [op        |-> op,      \* the callback or operation that ran
   sock      |-> 0,       \* the socket whose callback ran (0: none)
   pre       |-> "null",  \* readyState of ws.socket when it ran ("null": no socket)
   sent      |-> <<>>,    \* frames written with socket.send, in order
   ret       |-> "none",  \* return value of sendMessage: "true" / "false"
   msg       |-> NoMsg,   \* the message pushed or returned
   data      |-> NoTyping, \* the typing frame pushed
   delivered |-> 0,       \* ChatWindow listeners the event was delivered to
   invoked   |-> <<>>,    \* all listeners called, in the order of the calls
   threw     |-> FALSE,   \* a listener threw
   registered |-> <<>>,   \* the registry the event was dispatched to
   token     |-> "",      \* connect: the token argument
   call      |-> NoCall,  \* getByChatRoom: argument, response, value returned
   dup       |-> FALSE,   \* the message's id was already in messages
   room      |-> NoRoom,  \* conversation the request was made for
   explicit  |-> FALSE,   \* onclose: close() had been called on the socket
   scheduled |-> FALSE]   \* onclose: a reconnect timer was set

(***************************************************************************)
(* WebSocket objects                                                       *)
(***************************************************************************)
NewSocket(roomId, token) ==
  [roomId |-> roomId, token |-> token, readyState |-> "CONNECTING",
   closeCalled |-> FALSE]

\* WebSocket.close(): starts the closing handshake of a socket that is
\* connecting or open; no effect on one that is closing or closed.
CloseCall(sk) ==
  IF sk.readyState \in {"CONNECTING", "OPEN"}
    THEN [sk EXCEPT !.readyState = "CLOSING", !.closeCalled = TRUE]
    ELSE sk

ReadyState(w, socks) ==
  IF w.socket = 0 THEN "null" ELSE socks[w.socket].readyState

(***************************************************************************)
(* WebSocketService                                                        *)
(***************************************************************************)
\* Listeners are the ChatWindow's (the number of the selection that
\* registered them, positive) or those of another caller of the exported
\* service, of which one throws when it is called.
ExtListeners == {-1, -2}
Throwing     == {-2}

\* A registry is a JavaScript Set: one entry per value, iterated in
\* insertion order.  Set.prototype.add
SetAdd(reg, h) ==
  IF \E k \in DOMAIN reg : reg[k] = h THEN reg ELSE Append(reg, h)

\* Set.prototype.delete
SetDelete(reg, h) ==
  LET Keep(x) == x # h IN SelectSeq(reg, Keep)

\* handlers.forEach(handler => handler(x)): position of the first listener
\* that throws (0: none does)
FirstThrow(reg) ==
  LET T == {k \in DOMAIN reg : reg[k] \in Throwing}
  IN  IF T = {} THEN 0 ELSE CHOOSE k \in T : \A j \in T : k <= j

\* forEach: the listeners called, in order; the exception of a listener
\* ends the iteration
Invoked(reg) ==
  IF FirstThrow(reg) = 0 THEN reg ELSE SubSeq(reg, 1, FirstThrow(reg))

\* forEach: the number of ChatWindow listeners called
Reached(reg) ==
  Cardinality({k \in DOMAIN Invoked(reg) : Invoked(reg)[k] > 0})

\* constructor
NewService ==
  [socket |-> 0, reconnectAttempts |-> 0,
   messageHandlers |-> <<>>, typingHandlers |-> <<>>,
   connectionHandlers |-> <<>>]

\* disconnect without the three clear() calls
disconnectKeepsListeners(w) == [w EXCEPT !.socket = 0]

\* disconnect(): the service's fields afterwards
disconnect(w) ==
  [w EXCEPT !.socket = 0,
            !.messageHandlers = <<>>,
            !.typingHandlers = <<>>,
            !.connectionHandlers = <<>>]

\* disconnect(): the sockets afterwards
disconnectSockets(w, socks) ==
  IF w.socket # 0
    THEN [socks EXCEPT ![w.socket] = CloseCall(@)]
    ELSE socks

\* connectSockets without closing the socket the service holds
connectSocketsNoClose(w, socks, roomId, token) ==
  Append(socks, NewSocket(roomId, token))

\* connect(roomId, token): the sockets afterwards
connectSockets(w, socks, roomId, token) ==
  Append(IF w.socket # 0 THEN disconnectSockets(w, socks) ELSE socks,
         NewSocket(roomId, token))

\* connect(roomId, token): the service's fields afterwards
connect(w, socks, roomId, token) ==
  [(IF w.socket # 0 THEN disconnect(w) ELSE w)
     EXCEPT !.socket = Len(socks) + 1]

\* isConnected()
isConnected(w, socks) ==
  w.socket # 0 /\ socks[w.socket].readyState = "OPEN"

\* canSend without the readyState test
canSendAnySocket(w, socks) == w.socket # 0

\* the guard of sendMessage / sendTyping / sendReadReceipt
canSend(w, socks) ==
  w.socket # 0 /\ socks[w.socket].readyState = "OPEN"

Frame(w, f) == [sock |-> w.socket, frame |-> f]

\* sendMessage(text): frames written
sendMessage(w, socks, text) ==
  IF canSend(w, socks)
    THEN <<Frame(w, [type |-> "chat_message", message |-> text])>>
    ELSE <<>>

\* sendMessage(text): return value
sendMessageReturn(w, socks, text) ==
  IF canSend(w, socks) THEN "true" ELSE "false"

\* sendTyping(isTyping): frames written
sendTyping(w, socks, isTyping) ==
  IF canSend(w, socks)
    THEN <<Frame(w, [type |-> "typing", is_typing |-> isTyping])>>
    ELSE <<>>

\* sendReadReceipt(messageId): frames written
sendReadReceipt(w, socks, messageId) ==
  IF canSend(w, socks)
    THEN <<Frame(w, [type |-> "read_receipt", message_id |-> messageId])>>
    ELSE <<>>

(***************************************************************************)
(* Timers (setTimeout).  Both delays of the program are equal, so pending  *)
(* callbacks run in the order in which they were set: only the head of     *)
(* the queue may run, and only once its delay has elapsed.                 *)
(***************************************************************************)
ReconnectTimer(roomId, token) ==
  [kind |-> "reconnect", roomId |-> roomId, token |-> token,
   left |-> reconnectDelay, ref |-> FALSE]

\* ref: typingTimeoutRef.current holds this timer's id
TypingTimer ==
  [kind |-> "typing", roomId |-> NoRoom, token |-> "",
   left |-> typingStopDelay, ref |-> TRUE]

RemoveAt(q, k) == [j \in 1..(Len(q) - 1) |-> IF j < k THEN q[j] ELSE q[j + 1]]

\* clearTimeout(typingTimeoutRef.current)
clearTypingTimeout(q) == SelectSeq(q, LAMBDA t : ~t.ref)

PendingTyping(q)    == {k \in DOMAIN q : q[k].kind = "typing"}
PendingReconnect(q) == {k \in DOMAIN q : q[k].kind = "reconnect"}

(***************************************************************************)
(* ChatWindow: the listeners registered by setupWebSocket                  *)
(***************************************************************************)
HasId(view, i) == \E k \in DOMAIN view : view[k].id = i

\* onChatMessage replacing the stored entry instead of keeping it
onChatMessageReplace(prev, message) ==
  IF HasId(prev, message.id)
    THEN [k \in DOMAIN prev |->
            IF prev[k].id = message.id THEN message ELSE prev[k]]
    ELSE Append(prev, message)

\* onMessage listener, a chat message: append unless the id is known
onChatMessage(prev, message) ==
  IF HasId(prev, message.id) THEN prev ELSE Append(prev, message)

\* onReadReceipt inserting an entry for an id the view does not hold
onReadReceiptInsert(prev, message_id) ==
  IF HasId(prev, message_id)
    THEN [k \in DOMAIN prev |->
            IF prev[k].id = message_id THEN [prev[k] EXCEPT !.is_read = TRUE]
                                       ELSE prev[k]]
    ELSE Append(prev, [NoMsg EXCEPT !.id = message_id, !.is_read = TRUE])

\* onMessage listener, a read receipt
onReadReceipt(prev, message_id) ==
  [k \in DOMAIN prev |->
     IF prev[k].id = message_id THEN [prev[k] EXCEPT !.is_read = TRUE]
                                ELSE prev[k]]

\* receiptFor without the test of the sender
receiptForAnySender(w, socks, message) ==
  sendReadReceipt(w, socks, message.id)

\* receiptFor with the test of the sender inverted
receiptForOwn(w, socks, message) ==
  IF message.sender = Me THEN sendReadReceipt(w, socks, message.id) ELSE <<>>

\* onMessage listener: the read receipt sent for a pushed chat message
receiptFor(w, socks, message) ==
  IF message.sender # Me THEN sendReadReceipt(w, socks, message.id) ELSE <<>>

\* onTyping without the test of the sender
onTypingAnyUser(prev, data) ==
  IF data.is_typing THEN prev \cup {data.username}
                    ELSE prev \ {data.username}

\* onTyping listener
onTyping(prev, data) ==
  IF data.user_id # Me
    THEN IF data.is_typing THEN prev \cup {data.username}
                           ELSE prev \ {data.username}
    ELSE prev

\* onConnectionChange listener: the error state afterwards
onConnectionError(prev, status) ==
  IF status = "error" THEN "Connection error. Retrying..."
  ELSE IF status = "connected" THEN "null"
  ELSE prev

\* notifyConnectionHandlers(status) as seen by the ChatWindow
NotifyConnection(w, status) ==
  IF Reached(w.connectionHandlers) > 0
    THEN /\ connectionStatus' = status
         /\ error' = onConnectionError(error, status)
    ELSE UNCHANGED <<connectionStatus, error>>

(***************************************************************************)
(* History                                                                 *)
(***************************************************************************)
Others == {i \in MsgIds : SenderOf(i) # Me}
Cap(n, m) == IF n > m THEN m ELSE n

InitHist ==
  [closes   |-> 0,   \* close events since the last open event
   unexp    |-> 0,   \* closes of the current socket, not caused by close(), since
                     \* the last open event or explicit connect()
   receipts |-> [i \in Others |-> 0],  \* read_receipt frames written per id
   pushed   |-> {},  \* ids a push handed to the listener since the view was last loaded
   sinceKey |-> typingStopDelay,       \* ms since the last local keystroke
   sinceTyped |-> typingStopDelay,     \* ms since the last keystroke handled while open
   keys     |-> 0,   \* keystrokes of the current typing burst
   starts   |-> 0,   \* typing(true) frames written in the current burst
   handles  |-> <<>>] \* registrations made by callers other than the ChatWindow:
                     \* unsubscribe functions returned and not yet called, of
                     \* registrations that disconnect() has not cleared

Init ==
  /\ ws = NewService
  /\ sockets = <<>>
  /\ timers = <<>>
  /\ mounted = TRUE
  /\ chatRoom = NoRoom
  /\ messages = <<>>
  /\ typingUsers = {}
  /\ loading = FALSE
  /\ error = "null"
  /\ connectionStatus = "disconnected"
  /\ typingTimeoutRef = FALSE
  /\ loads = <<>>
  /\ sends = <<>>
  /\ selects = 0
  /\ created = {}
  /\ lastStep = Step("init")
  /\ hist = InitHist

(***************************************************************************)
(* ChatWindow: the effect on [chatRoom]                                    *)
(***************************************************************************)
\* setupWebSocket's three subscriptions (onMessage, onTyping, onConnectionChange)
subscribeAll(w, h) ==
  [w EXCEPT !.messageHandlers = SetAdd(@, h),
            !.typingHandlers = SetAdd(@, h),
            !.connectionHandlers = SetAdd(@, h)]

\* setupWebSocket followed by the cleanup instead of preceded by it
setupThenCleanup(w, socks, r, tok, h) ==
  disconnect(subscribeAll(connect(w, socks, r, tok), h))

\* setupWebSocket(): the service afterwards ("" : no token in localStorage)
setupWebSocket(w, socks, r, tok, h) ==
  IF tok = "" THEN w ELSE subscribeAll(connect(w, socks, r, tok), h)

\* setupWebSocket(): the sockets afterwards
setupSockets(w, socks, r, tok) ==
  IF tok = "" THEN socks ELSE connectSockets(w, socks, r, tok)

\* The user selects conversation r: React runs the previous effect's cleanup
\* (cleanupWebSocket) and then the effect (loadMessages, setupWebSocket).
SelectRoom(r, tok, lim) ==
  /\ mounted
  /\ selects < MaxSelects
  /\ Len(sockets) < lim
  /\ LET w0 == disconnect(ws)
         s0 == disconnectSockets(ws, sockets)
     IN  /\ ws' = setupWebSocket(w0, s0, r, tok, selects + 1)
         /\ sockets' = setupSockets(w0, s0, r, tok)
  /\ chatRoom' = r
  /\ selects' = selects + 1
  /\ typingUsers' = {}
  /\ connectionStatus' = "disconnected"
  /\ loading' = TRUE
  /\ error' = "null"
  /\ loads' = Append(loads, r)
  /\ lastStep' = [Step("select") EXCEPT !.room = r]
  /\ hist' = [hist EXCEPT !.unexp = IF tok = "" THEN @ ELSE 0,
                          !.handles = <<>>]
  /\ UNCHANGED <<timers, mounted, messages, typingTimeoutRef, sends, created>>

\* Logout: the ChatWindow unmounts and React runs the effect's cleanup.
Unmount ==
  /\ mounted
  /\ mounted' = FALSE
  /\ ws' = disconnect(ws)
  /\ sockets' = disconnectSockets(ws, sockets)
  /\ lastStep' = Step("unmount")
  /\ hist' = [hist EXCEPT !.handles = <<>>]
  /\ UNCHANGED <<timers, chatRoom, messages, typingUsers, loading, error,
                 connectionStatus, typingTimeoutRef, loads, sends, selects,
                 created>>

(***************************************************************************)
(* Socket callbacks installed by connect()                                 *)
(***************************************************************************)
Dead == [roomId |-> NoRoom, token |-> "", readyState |-> "CLOSED",
         closeCalled |-> FALSE]

\* onopen leaving the retry counter alone
onopenKeepsCount(w) == w

\* socket.onopen
onopen(w) == [w EXCEPT !.reconnectAttempts = 0]

SocketOpen(s) ==
  /\ sockets[s].readyState = "CONNECTING"
  /\ sockets' = [sockets EXCEPT ![s].readyState = "OPEN"]
  /\ ws' = onopen(ws)
  /\ NotifyConnection(ws, "connected")
  /\ lastStep' = [Step("onopen") EXCEPT !.sock = s,
                    !.delivered = Reached(ws.connectionHandlers),
                    !.invoked = Invoked(ws.connectionHandlers),
                    !.registered = ws.connectionHandlers,
                    !.threw = FirstThrow(ws.connectionHandlers) # 0]
  /\ hist' = [hist EXCEPT !.closes = 0, !.unexp = 0]
  /\ UNCHANGED <<timers, mounted, chatRoom, messages, typingUsers, loading,
                 typingTimeoutRef, loads, sends, selects, created>>

\* The peer starts the closing handshake: readyState becomes CLOSING before
\* the close event is dispatched.
SocketClosing(s) ==
  /\ sockets[s].readyState = "OPEN"
  /\ sockets' = [sockets EXCEPT ![s].readyState = "CLOSING"]
  /\ lastStep' = [Step("closing") EXCEPT !.sock = s]
  /\ UNCHANGED <<ws, timers, compVars, hist, created>>

\* socket.onerror
SocketError(s) ==
  /\ sockets[s].readyState # "CLOSED"
  /\ NotifyConnection(ws, "error")
  /\ lastStep' = [Step("onerror") EXCEPT !.sock = s,
                    !.delivered = Reached(ws.connectionHandlers),
                    !.invoked = Invoked(ws.connectionHandlers),
                    !.registered = ws.connectionHandlers,
                    !.threw = FirstThrow(ws.connectionHandlers) # 0]
  /\ UNCHANGED <<ws, sockets, timers, mounted, chatRoom, messages, typingUsers,
                 loading, typingTimeoutRef, loads, sends, selects, hist, created>>

\* shouldReconnect with <= for <
shouldReconnectOffByOne(w) == w.reconnectAttempts <= maxReconnectAttempts

\* socket.onclose: does it set the reconnect timer
shouldReconnect(w) == w.reconnectAttempts < maxReconnectAttempts

\* onclose leaving the retry counter alone
oncloseKeepsCount(w) == w

\* socket.onclose: the service afterwards
onclose(w) ==
  IF FirstThrow(w.connectionHandlers) = 0 /\ shouldReconnect(w)
    THEN [w EXCEPT !.reconnectAttempts = @ + 1]
    ELSE w

\* socket.onclose: the timers afterwards
oncloseTimers(w, q, roomId, token) ==
  IF FirstThrow(w.connectionHandlers) = 0 /\ shouldReconnect(w)
    THEN Append(q, ReconnectTimer(roomId, token))
    ELSE q

SocketClose(s) ==
  /\ sockets[s].readyState # "CLOSED"
  /\ sockets' = [sockets EXCEPT ![s] = Dead]
  /\ NotifyConnection(ws, "disconnected")
  /\ ws' = onclose(ws)
  /\ timers' = oncloseTimers(ws, timers, sockets[s].roomId, sockets[s].token)
  /\ lastStep' = [Step("onclose") EXCEPT !.sock = s,
                    !.delivered = Reached(ws.connectionHandlers),
                    !.invoked = Invoked(ws.connectionHandlers),
                    !.registered = ws.connectionHandlers,
                    !.threw = FirstThrow(ws.connectionHandlers) # 0,
                    !.explicit = sockets[s].closeCalled,
                    !.room = sockets[s].roomId,
                    !.scheduled = (Len(timers') > Len(timers))]
  /\ hist' = [hist EXCEPT
               !.closes = Cap(@ + 1, maxReconnectAttempts + 1),
               !.unexp = IF sockets[s].closeCalled \/ s # ws.socket THEN @
                         ELSE Cap(@ + 1, maxReconnectAttempts + 1)]
  /\ UNCHANGED <<mounted, chatRoom, messages, typingUsers, loading,
                 typingTimeoutRef, loads, sends, selects, created>>

\* The close event of the socket the service holds, close() not having
\* been called on it: the connection was lost.
SocketDrop(s) ==
  /\ s = ws.socket
  /\ ~sockets[s].closeCalled
  /\ SocketClose(s)

(***************************************************************************)
(* socket.onmessage: the frames the server pushes on an open socket        *)
(***************************************************************************)
Repeat(q, n) ==
  LET F[k \in 0..n] == IF k = 0 THEN <<>> ELSE F[k-1] \o q
  IN  F[n]

\* {type: 'chat_message', message}: notifyMessageHandlers(data.message)
PushChatMessage(s, i, t) ==
  /\ sockets[s].readyState = "OPEN"
  /\ RoomOf(i) = sockets[s].roomId
  /\ Exists(i)
  /\ LET m == Msg(i, t, FALSE)
         n == Reached(ws.messageHandlers)
     IN  /\ Len(onChatMessage(messages, m)) <= MaxView
         /\ messages' = IF n > 0 /\ mounted THEN onChatMessage(messages, m)
                                            ELSE messages
         /\ lastStep' = [Step("chat_message") EXCEPT
                           !.sock = s, !.msg = m, !.delivered = n,
                           !.invoked = Invoked(ws.messageHandlers),
                           !.registered = ws.messageHandlers,
                    !.threw = FirstThrow(ws.messageHandlers) # 0,
                           !.pre = ReadyState(ws, sockets),
                           !.dup = HasId(messages, i),
                           !.sent = Repeat(receiptFor(ws, sockets, m), n)]
         /\ hist' = [hist EXCEPT
                       !.receipts =
                         [j \in Others |->
                            IF j = i THEN Cap(@[j] + Len(lastStep'.sent), 2)
                                     ELSE @[j]],
                       !.pushed = IF n > 0 /\ mounted THEN @ \cup {i} ELSE @]
  /\ UNCHANGED <<ws, sockets, timers, mounted, chatRoom, typingUsers, loading,
                 error, connectionStatus, typingTimeoutRef, loads, sends,
                 selects, created>>

\* {type: 'read_receipt', message_id}: notifyReadReceiptHandlers(data)
PushReadReceipt(s, i) ==
  /\ sockets[s].readyState = "OPEN"
  /\ RoomOf(i) = sockets[s].roomId
  /\ Exists(i)
  /\ messages' = IF Reached(ws.messageHandlers) > 0 /\ mounted
                   THEN onReadReceipt(messages, i) ELSE messages
  /\ lastStep' = [Step("read_receipt") EXCEPT
                    !.sock = s, !.msg = [NoMsg EXCEPT !.id = i],
                    !.delivered = Reached(ws.messageHandlers),
                    !.invoked = Invoked(ws.messageHandlers),
                    !.registered = ws.messageHandlers,
                    !.threw = FirstThrow(ws.messageHandlers) # 0]
  /\ UNCHANGED <<ws, sockets, timers, mounted, chatRoom, typingUsers, loading,
                 error, connectionStatus, typingTimeoutRef, loads, sends,
                 selects, hist, created>>

\* {type: 'typing', user_id, username, is_typing}: notifyTypingHandlers(data)
PushTyping(s, u, b) ==
  /\ sockets[s].readyState = "OPEN"
  /\ typingUsers' = IF Reached(ws.typingHandlers) > 0 /\ mounted
                      THEN onTyping(typingUsers,
                             [user_id |-> u, username |-> u, is_typing |-> b])
                      ELSE typingUsers
  /\ lastStep' = [Step("typing") EXCEPT
                    !.sock = s, !.delivered = Reached(ws.typingHandlers),
                    !.data = [user_id |-> u, username |-> u, is_typing |-> b],
                    !.invoked = Invoked(ws.typingHandlers),
                    !.registered = ws.typingHandlers,
                    !.threw = FirstThrow(ws.typingHandlers) # 0]
  /\ UNCHANGED <<ws, sockets, timers, mounted, chatRoom, messages, loading,
                 error, connectionStatus, typingTimeoutRef, loads, sends,
                 selects, hist, created>>

\* frameCategory notifying the message listeners for every frame
frameCategoryAny(kind) == "message"

\* onmessage: the registry notified for a frame ("none": the frame is only
\* logged; "undecodable": JSON.parse throws and the catch logs)
frameCategory(kind) ==
  IF kind \in {"chat_message", "read_receipt"} THEN "message"
  ELSE IF kind = "typing" THEN "typing"
  ELSE "none"

\* connection_established, an unknown type, or data JSON.parse rejects:
\* logged, no listener is called
PushIgnored(s, kind) ==
  /\ sockets[s].readyState = "OPEN"
  /\ LET reg == IF frameCategory(kind) = "message" THEN ws.messageHandlers
                ELSE IF frameCategory(kind) = "typing" THEN ws.typingHandlers
                ELSE <<>>
     IN  lastStep' = [Step(kind) EXCEPT !.sock = s,
                        !.invoked = Invoked(reg),
                        !.delivered = Reached(reg),
                        !.registered = reg]
  /\ UNCHANGED <<ws, sockets, timers, compVars, hist, created>>

\* A chat_message frame that decodes but whose message is malformed: it has
\* no sender ("no_sender"), no id ("no_id"), or the frame has no message at
\* all ("no_message").  An absent id or sender is 0.  The listener queues
\* the append before it reads message.sender.id; the TypeError of that
\* read, or of message.type on an absent message, is caught by onmessage.
Malformed == {"no_sender", "no_id", "no_message"}

MalformedMsg(kind, i, t) ==
  IF kind = "no_sender" THEN [id |-> i, sender |-> 0, text |-> t, is_read |-> FALSE]
  ELSE IF kind = "no_id" THEN [id |-> 0, sender |-> Other, text |-> t, is_read |-> FALSE]
  ELSE NoMsg

\* the listener on a malformed message: the view afterwards
onMalformed(prev, kind, message) ==
  IF kind = "no_message" THEN prev ELSE onChatMessage(prev, message)

\* the listener on a malformed message: the read receipt sent
receiptForMalformed(w, socks, kind, message) ==
  IF kind = "no_id" THEN receiptFor(w, socks, message) ELSE <<>>

PushMalformed(s, kind, i, t) ==
  /\ sockets[s].readyState = "OPEN"
  /\ RoomOf(i) = sockets[s].roomId
  /\ LET m == MalformedMsg(kind, i, t)
         n == Reached(ws.messageHandlers)
     IN  /\ Len(onMalformed(messages, kind, m)) <= MaxView
         /\ messages' = IF n > 0 /\ mounted THEN onMalformed(messages, kind, m)
                                            ELSE messages
         /\ lastStep' = [Step("malformed") EXCEPT
                           !.sock = s, !.msg = m, !.delivered = n,
                           !.invoked = Invoked(ws.messageHandlers),
                           !.registered = ws.messageHandlers,
                           !.threw = (n > 0 /\ kind # "no_id"),
                           !.pre = ReadyState(ws, sockets),
                           !.dup = HasId(messages, m.id),
                           !.sent = Repeat(receiptForMalformed(ws, sockets, kind, m), n)]
  /\ UNCHANGED <<ws, sockets, timers, mounted, chatRoom, typingUsers, loading,
                 error, connectionStatus, typingTimeoutRef, loads, sends,
                 selects, hist, created>>

(***************************************************************************)
(* Timers                                                                  *)
(***************************************************************************)
Tick ==
  /\ \/ \E k \in DOMAIN timers : timers[k].left > 0
     \/ hist.sinceKey < typingStopDelay
  /\ timers' = [k \in DOMAIN timers |->
                  [timers[k] EXCEPT !.left = Max(0, @ - TickMs)]]
  /\ hist' = [hist EXCEPT !.sinceKey = Cap(@ + TickMs, typingStopDelay),
                          !.sinceTyped = Cap(@ + TickMs, typingStopDelay)]
  /\ lastStep' = Step("tick")
  /\ UNCHANGED <<ws, sockets, compVars, created>>

\* the reconnect timer set by onclose: this.connect(roomId, token)
ReconnectFire(lim) ==
  /\ timers # <<>>
  /\ Head(timers).kind = "reconnect"
  /\ Head(timers).left = 0
  /\ Len(sockets) < lim
  /\ timers' = Tail(timers)
  /\ ws' = connect(ws, sockets, Head(timers).roomId, Head(timers).token)
  /\ sockets' = connectSockets(ws, sockets, Head(timers).roomId,
                               Head(timers).token)
  /\ lastStep' = [Step("reconnect") EXCEPT !.room = Head(timers).roomId,
                    !.pre = ReadyState(ws, sockets)]
  /\ hist' = [hist EXCEPT !.handles = IF ws.socket # 0 THEN <<>> ELSE @]
  /\ UNCHANGED <<compVars, created>>

\* the timer set by handleTyping: wsService.sendTyping(false)
TypingFire ==
  /\ timers # <<>>
  /\ Head(timers).kind = "typing"
  /\ Head(timers).left = 0
  /\ timers' = Tail(timers)
  /\ lastStep' = [Step("typingTimer") EXCEPT
                    !.pre = ReadyState(ws, sockets),
                    !.sent = sendTyping(ws, sockets, FALSE)]
  /\ UNCHANGED <<ws, sockets, compVars, hist, created>>

(***************************************************************************)
(* ChatWindow: loadMessages and its response                               *)
(***************************************************************************)
RoomIds(r) == {j \in MsgIds : RoomOf(j) = r /\ Exists(j)}

\* the ids of S in increasing order
SortedIds(S) ==
  LET F[k \in 0..Cardinality(S)] ==
        IF k = 0 THEN <<>>
        ELSE LET done == {F[k-1][j] : j \in 1..(k-1)}
             IN  Append(F[k-1], CHOOSE x \in S \ done : \A y \in S \ done : x <= y)
  IN  F[Cardinality(S)]

\* What GET /api/messages/?chat_room=r may answer: messages of the
\* conversation, oldest first, one per id.
LoadResults(r) ==
  UNION {
    {[k \in 1..Cardinality(S) |-> Msg(SortedIds(S)[k], f[SortedIds(S)[k]], FALSE)] :
       f \in [S -> Stored]} :
    S \in {T \in SUBSET RoomIds(r) : Cardinality(T) <= MaxView}}

\* loadMessages after the await: setMessages(Array.isArray(d) ? d : [])
LoadResolve(k, data) ==
  /\ k \in DOMAIN loads
  /\ loads' = RemoveAt(loads, k)
  /\ IF mounted
       THEN /\ messages' = data
            /\ loading' = FALSE
       ELSE UNCHANGED <<messages, loading>>
  /\ lastStep' = [Step("loaded") EXCEPT !.room = loads[k]]
  /\ hist' = [hist EXCEPT !.pushed = IF mounted THEN {} ELSE @]
  /\ UNCHANGED <<ws, sockets, timers, mounted, chatRoom, typingUsers, error,
                 connectionStatus, typingTimeoutRef, sends, selects, created>>

\* loadMessages, the catch branch
LoadFail(k) ==
  /\ k \in DOMAIN loads
  /\ loads' = RemoveAt(loads, k)
  /\ IF mounted
       THEN /\ messages' = <<>>
            /\ loading' = FALSE
            /\ error' = "Failed to load messages"
       ELSE UNCHANGED <<messages, loading, error>>
  /\ lastStep' = [Step("loadFailed") EXCEPT !.room = loads[k]]
  /\ hist' = [hist EXCEPT !.pushed = IF mounted THEN {} ELSE @]
  /\ UNCHANGED <<ws, sockets, timers, mounted, chatRoom, typingUsers,
                 connectionStatus, typingTimeoutRef, sends, selects, created>>

(***************************************************************************)
(* messageAPI.getByChatRoom                                                *)
(***************************************************************************)
\* The strings that are decimal literals, with their values
Numerals == {<<"0", 0>>, <<"1", 1>>, <<"2", 2>>}

\* Number(x): null and the empty string convert to 0, undefined and a
\* string that is not a numeric literal to NaN
Number(x) ==
  IF x.t = "null" THEN JsNumber(0)
  ELSE IF x.t = "undefined" THEN JsNaN
  ELSE IF x.t = "string"
    THEN IF x.s = "" THEN JsNumber(0)
         ELSE IF \E p \in Numerals : p[1] = x.s
           THEN JsNumber((CHOOSE p \in Numerals : p[1] = x.s)[2])
           ELSE JsNaN
  ELSE x

isNaN(x) == Number(x).t = "NaN"

\* roomId == null || roomId === 'undefined' || isNaN(Number(roomId))
invalidRoomId(roomId) ==
  \/ roomId.t \in {"null", "undefined"}
  \/ roomId = JsString("undefined")
  \/ isNaN(Number(roomId))

\* arrayOrEmpty returning the body as it came
arrayOrEmptyRaw(data) == data

\* Array.isArray(data) ? data : []
arrayOrEmpty(data) ==
  IF data.kind = "list" THEN data ELSE [kind |-> "list", list |-> <<>>]

\* getByChatRoom(roomId) when the backend would answer with c.body
\* ("fail": authenticatedFetch throws)
getByChatRoom(c) ==
  IF invalidRoomId(c.roomId)
    THEN [c EXCEPT !.outcome = "returns",
                   !.value = [kind |-> "list", list |-> <<>>]]
  ELSE IF c.body.kind = "fail"
    THEN [c EXCEPT !.requested = TRUE, !.outcome = "throws"]
  ELSE [c EXCEPT !.requested = TRUE, !.outcome = "returns",
                 !.value = arrayOrEmpty(c.body)]

\* The room ids a caller may pass
RoomIdInputs ==
  {JsNull, JsUndefined, JsNaN, JsString("undefined"), JsString("abc"),
   JsString(""), JsString("1"), JsString("2"), JsNumber(1), JsNumber(2)}

\* What the backend may answer: a list of messages, a body that is not a
\* list (an object wrapping a list, null, a string, a number), or a failure
Bodies ==
  LET Lists == UNION {LoadResults(r) : r \in Rooms}
  IN  {[kind |-> k, list |-> l] : k \in {"list", "object"}, l \in Lists}
        \cup {[kind |-> k, list |-> <<>>] : k \in {"null", "string", "number", "fail"}}

\* A caller has called getByChatRoom with some room id, the backend being
\* about to give some answer.
InitGet ==
  /\ ws = NewService
  /\ sockets = <<>>
  /\ timers = <<>>
  /\ mounted = TRUE
  /\ chatRoom = NoRoom
  /\ messages = <<>>
  /\ typingUsers = {}
  /\ loading = FALSE
  /\ error = "null"
  /\ connectionStatus = "disconnected"
  /\ typingTimeoutRef = FALSE
  /\ loads = <<>>
  /\ sends = <<>>
  /\ selects = 0
  /\ created = {}
  /\ hist = InitHist
  /\ \E x \in RoomIdInputs, b \in Bodies :
       lastStep = [Step("getByChatRoom") EXCEPT
                     !.call = [NoCall EXCEPT !.roomId = x, !.body = b]]

\* A call of getByChatRoom returns or throws.
GetByChatRoomSettle ==
  /\ lastStep.op = "getByChatRoom"
  /\ lastStep.call.outcome = "pending"
  /\ lastStep' = [lastStep EXCEPT !.call = getByChatRoom(@)]
  /\ UNCHANGED <<ws, sockets, timers, compVars, hist, created>>

(***************************************************************************)
(* ChatWindow: handleSendMessage                                           *)
(***************************************************************************)
\* handleSendMessage takes the WebSocket path
sendsViaSocket(w, socks, text) ==
  isConnected(w, socks) /\ sendMessageReturn(w, socks, text) = "true"

\* setMessages(prev => [...prev, newMessage])
appendSent(prev, newMessage) == Append(prev, newMessage)

HandleSendMessage(t, i) ==
  /\ mounted
  /\ chatRoom # NoRoom
  /\ Fresh(i, chatRoom)
  /\ created' = created \cup {i}
  /\ IF sendsViaSocket(ws, sockets, t)
       THEN /\ lastStep' = [Step("send") EXCEPT
                              !.pre = ReadyState(ws, sockets),
                              !.room = chatRoom,
                              !.ret = "true",
                              !.sent = sendMessage(ws, sockets, t)]
            /\ UNCHANGED sends
       ELSE /\ Len(sends) < MaxPending
            /\ sends' = Append(sends, [room |-> chatRoom, text |-> t, id |-> i])
            /\ lastStep' = [Step("send") EXCEPT
                              !.pre = ReadyState(ws, sockets),
                              !.room = chatRoom,
                              !.sent = IF isConnected(ws, sockets)
                                         THEN sendMessage(ws, sockets, t)
                                         ELSE <<>>]
  /\ UNCHANGED <<ws, sockets, timers, mounted, chatRoom, messages, typingUsers,
                 loading, error, connectionStatus, typingTimeoutRef, loads,
                 selects, hist>>

\* POST /api/messages/ answered: the created message, authored by the user
SendResolve(k) ==
  /\ k \in DOMAIN sends
  /\ Len(messages) < MaxView
  /\ sends' = RemoveAt(sends, k)
  /\ messages' = IF mounted
                   THEN appendSent(messages, Msg(sends[k].id, sends[k].text, FALSE))
                   ELSE messages
  /\ lastStep' = [Step("sent") EXCEPT !.room = sends[k].room,
                     !.msg = Msg(sends[k].id, sends[k].text, FALSE),
                     !.dup = HasId(messages, sends[k].id)]
  /\ UNCHANGED <<ws, sockets, timers, mounted, chatRoom, typingUsers, loading,
                 error, connectionStatus, typingTimeoutRef, loads, selects,
                 hist, created>>

\* err.message of the Error authenticatedFetch throws for a response that
\* is not ok and has no body: the status line
ErrMessages == {"HTTP 500"}

\* onSendError leaving the error state alone
onSendErrorSilent(prev, em) == prev

\* handleSendMessage's catch branch: the error state afterwards
onSendError(prev, em) == "Failed to send message: " \o em

\* POST /api/messages/ failed: the catch branch
SendFail(k, em) ==
  /\ k \in DOMAIN sends
  /\ sends' = RemoveAt(sends, k)
  /\ error' = IF mounted THEN onSendError(error, em) ELSE error
  /\ lastStep' = [Step("sendFailed") EXCEPT !.room = sends[k].room]
  /\ UNCHANGED <<ws, sockets, timers, mounted, chatRoom, messages, typingUsers,
                 loading, connectionStatus, typingTimeoutRef, loads, selects,
                 hist, created>>

(***************************************************************************)
(* Callers of the exported wsService other than the ChatWindow             *)
(***************************************************************************)
Categories == {"message", "typing", "connection"}

Registry(w, cat) ==
  IF cat = "message" THEN w.messageHandlers
  ELSE IF cat = "typing" THEN w.typingHandlers
  ELSE w.connectionHandlers

WithRegistry(w, cat, reg) ==
  IF cat = "message" THEN [w EXCEPT !.messageHandlers = reg]
  ELSE IF cat = "typing" THEN [w EXCEPT !.typingHandlers = reg]
  ELSE [w EXCEPT !.connectionHandlers = reg]

AllRegistered(w) ==
  w.messageHandlers \o w.typingHandlers \o w.connectionHandlers

\* onMessage / onTyping / onConnectionChange (handler): handlers.add(handler)
subscribe(w, cat, l) == WithRegistry(w, cat, SetAdd(Registry(w, cat), l))

\* the function they return: handlers.delete(handler)
unsubscribe(w, cat, l) == WithRegistry(w, cat, SetDelete(Registry(w, cat), l))

\* A caller registers listener l and keeps the function returned.
Subscribe(cat, l) ==
  /\ Len(hist.handles) < MaxHandles
  /\ ws' = subscribe(ws, cat, l)
  /\ hist' = [hist EXCEPT !.handles = Append(@, [cat |-> cat, listener |-> l])]
  /\ lastStep' = Step("subscribe")
  /\ UNCHANGED <<sockets, timers, compVars, created>>

\* A caller calls the k-th of the functions it keeps.
Unsubscribe(k) ==
  /\ k \in DOMAIN hist.handles
  /\ ws' = unsubscribe(ws, hist.handles[k].cat, hist.handles[k].listener)
  /\ hist' = [hist EXCEPT !.handles = RemoveAt(@, k)]
  /\ lastStep' = Step("unsubscribe")
  /\ UNCHANGED <<sockets, timers, compVars, created>>

\* A caller calls connect(roomId, token).
CallConnect(roomId, token, lim) ==
  /\ Len(sockets) < lim
  /\ ws' = connect(ws, sockets, roomId, token)
  /\ sockets' = connectSockets(ws, sockets, roomId, token)
  /\ hist' = [hist EXCEPT !.unexp = 0,
                          !.handles = IF ws.socket # 0 THEN <<>> ELSE @]
  /\ lastStep' = [Step("connect") EXCEPT
                    !.room = roomId, !.token = token,
                    !.pre = ReadyState(ws, sockets),
                    !.registered = AllRegistered(ws)]
  /\ UNCHANGED <<timers, compVars, created>>

\* A caller calls disconnect().
CallDisconnect ==
  /\ ws' = disconnect(ws)
  /\ sockets' = disconnectSockets(ws, sockets)
  /\ hist' = [hist EXCEPT !.handles = <<>>]
  /\ lastStep' = [Step("disconnect") EXCEPT
                    !.sock = ws.socket,
                    !.pre = ReadyState(ws, sockets),
                    !.registered = AllRegistered(ws)]
  /\ UNCHANGED <<timers, compVars, created>>

\* A caller of the exported wsService calls sendMessage(text) directly.
CallSendMessage(t) ==
  /\ lastStep' = [Step("sendMessage") EXCEPT
                    !.pre = ReadyState(ws, sockets),
                    !.msg = [NoMsg EXCEPT !.text = t],
                    !.ret = sendMessageReturn(ws, sockets, t),
                    !.sent = sendMessage(ws, sockets, t)]
  /\ UNCHANGED <<ws, sockets, timers, compVars, hist, created>>

(***************************************************************************)
(* ChatWindow: handleTyping, called by MessageInput.handleChange on every  *)
(* keystroke                                                               *)
(***************************************************************************)
\* typingFrames with the isConnected test inverted
typingFramesInverted(w, socks) ==
  IF ~isConnected(w, socks) THEN sendTyping(w, socks, TRUE) ELSE <<>>

\* handleTyping: frames written
typingFrames(w, socks) ==
  IF isConnected(w, socks) THEN sendTyping(w, socks, TRUE) ELSE <<>>

\* typingTimers without clearTimeout
typingTimersNoClear(w, socks, q) ==
  IF isConnected(w, socks) THEN Append(q, TypingTimer) ELSE q

\* handleTyping: the timers afterwards
typingTimers(w, socks, q) ==
  IF isConnected(w, socks)
    THEN Append(clearTypingTimeout(q), TypingTimer)
    ELSE q

HandleTyping ==
  /\ mounted
  /\ chatRoom # NoRoom
  /\ timers' = typingTimers(ws, sockets, timers)
  /\ typingTimeoutRef' = (typingTimeoutRef \/ isConnected(ws, sockets))
  /\ lastStep' = [Step("keystroke") EXCEPT
                    !.pre = ReadyState(ws, sockets),
                    !.sent = typingFrames(ws, sockets)]
  /\ LET fresh == hist.sinceKey >= typingStopDelay
     IN  hist' = [hist EXCEPT
                    !.sinceKey = 0,
                    !.sinceTyped = IF isConnected(ws, sockets) THEN 0 ELSE @,
                    !.keys = Cap((IF fresh THEN 0 ELSE @) + 1, MaxKeys),
                    !.starts = Cap((IF fresh THEN 0 ELSE @)
                                     + Len(lastStep'.sent), MaxKeys)]
  /\ UNCHANGED <<ws, sockets, mounted, chatRoom, messages, typingUsers,
                 loading, error, connectionStatus, loads, sends, selects, created>>

(***************************************************************************)
(* Specification                                                           *)
(***************************************************************************)
Users == {Me, Other}
Ignored == {"connection_established", "unknown", "undecodable"}

\* connection lifecycle: the user's selections and the sockets' callbacks
Lifecycle(lim) ==
  \/ \E r \in Rooms, tok \in Tokens \cup {""} : SelectRoom(r, tok, lim)
  \/ Unmount
  \/ \E s \in DOMAIN sockets : SocketOpen(s)
  \/ \E s \in DOMAIN sockets : SocketClosing(s)
  \/ \E s \in DOMAIN sockets : SocketError(s)
  \/ \E s \in DOMAIN sockets : SocketClose(s)

\* frames pushed by the server
Inbound ==
  \/ \E s \in DOMAIN sockets, i \in MsgIds, t \in Texts : PushChatMessage(s, i, t)
  \/ \E s \in DOMAIN sockets, i \in MsgIds : PushReadReceipt(s, i)
  \/ \E s \in DOMAIN sockets, u \in Users, b \in BOOLEAN : PushTyping(s, u, b)
  \/ \E s \in DOMAIN sockets, kind \in Ignored : PushIgnored(s, kind)
  \/ \E s \in DOMAIN sockets, kind \in Malformed, i \in MsgIds, t \in Stored :
       PushMalformed(s, kind, i, t)

\* HTTP responses
Http ==
  \/ \E k \in DOMAIN loads : \E data \in LoadResults(loads[k]) : LoadResolve(k, data)
  \/ \E k \in DOMAIN loads : LoadFail(k)
  \/ \E k \in DOMAIN sends : SendResolve(k)
  \/ \E k \in DOMAIN sends, em \in ErrMessages : SendFail(k, em)

Next ==
  \/ Lifecycle(MaxSockets)
  \/ Inbound
  \/ Http
  \/ Tick
  \/ ReconnectFire(MaxSockets)
  \/ TypingFire
  \/ \E t \in Stored, i \in MsgIds : HandleSendMessage(t, i)
  \/ \E t \in Stored : CallSendMessage(t)
  \/ HandleTyping
  \/ \E r \in Rooms \cup {NoRoom}, tok \in Tokens \cup {""} :
       CallConnect(r, tok, MaxSockets)
  \/ CallDisconnect
  \/ \E cat \in Categories, l \in ExtListeners : Subscribe(cat, l)
  \/ \E k \in DOMAIN hist.handles : Unsubscribe(k)

Spec == Init /\ [][Next]_vars

\* The connection manager: selections, the sockets' callbacks and the
\* reconnect timers.  Conversations are selected while fewer than MaxLive
\* sockets have been created; reconnects go on up to MaxSockets.
NextConn ==
  \/ \E r \in Rooms, tok \in Tokens : SelectRoom(r, tok, MaxLive)
  \/ Unmount
  \/ \E s \in DOMAIN sockets : SocketOpen(s)
  \/ \E s \in DOMAIN sockets : SocketClosing(s)
  \/ \E s \in DOMAIN sockets : SocketClose(s)
  \/ Tick
  \/ ReconnectFire(MaxSockets)

SpecConn == Init /\ [][NextConn]_vars

\* A caller of sendMessage in every state of the connection.
NextSend ==
  \/ Lifecycle(MaxLive)
  \/ Tick
  \/ ReconnectFire(MaxLive)
  \/ \E t \in Stored : CallSendMessage(t)

SpecSend == Init /\ [][NextSend]_vars

\* Pushed chat messages and bulk loads: selections, the socket opening,
\* pushes and the answers to loadMessages.
NextPush ==
  \/ \E r \in Rooms, tok \in Tokens : SelectRoom(r, tok, MaxSockets)
  \/ \E s \in DOMAIN sockets : SocketOpen(s)
  \/ \E s \in DOMAIN sockets, i \in MsgIds, t \in Texts : PushChatMessage(s, i, t)
  \/ \E k \in DOMAIN loads : \E data \in LoadResults(loads[k]) : LoadResolve(k, data)
  \/ \E k \in DOMAIN loads : LoadFail(k)

SpecPush == Init /\ [][NextPush]_vars

\* Local sends: selections, the socket opening, pushes of stored messages,
\* HTTP responses and handleSendMessage (a connection that is not yet open
\* is the "not Open" case of a send).
NextView ==
  \/ \E r \in Rooms, tok \in Tokens : SelectRoom(r, tok, MaxSockets)
  \/ \E s \in DOMAIN sockets : SocketOpen(s)
  \/ \E s \in DOMAIN sockets, i \in MsgIds, t \in Stored : PushChatMessage(s, i, t)
  \/ Http
  \/ \E t \in Stored, i \in MsgIds : HandleSendMessage(t, i)

SpecView == Init /\ [][NextView]_vars

\* Local typing: keystrokes, the stop timer and the clock, while
\* conversations are selected and sockets open and close.
NextTyping ==
  \/ \E r \in Rooms, tok \in Tokens : SelectRoom(r, tok, MaxLive)
  \/ \E s \in DOMAIN sockets : SocketOpen(s)
  \/ \E s \in DOMAIN sockets : SocketClosing(s)
  \/ \E s \in DOMAIN sockets : SocketClose(s)
  \/ Tick
  \/ ReconnectFire(MaxLive)
  \/ TypingFire
  \/ HandleTyping

SpecTyping == Init /\ [][NextTyping]_vars

\* A conversation that loses its connection and is reconnected by the
\* timer: one selection per socket bound, the sockets' callbacks, the clock,
\* the reconnect timer and the chat messages pushed on an open socket.
NextResume ==
  \/ \E r \in Rooms, tok \in Tokens : SelectRoom(r, tok, MaxLive)
  \/ \E s \in DOMAIN sockets : SocketOpen(s)
  \/ \E s \in DOMAIN sockets : SocketError(s)
  \/ \E s \in DOMAIN sockets : SocketClose(s)
  \/ Tick
  \/ ReconnectFire(MaxSockets)
  \/ \E s \in DOMAIN sockets, i \in MsgIds, t \in Stored : PushChatMessage(s, i, t)

SpecResume == Init /\ [][NextResume]_vars

\* Teardowns while a reconnect is pending: selections, unmount, the socket
\* opening, the loss of the connection the service holds, the clock and
\* the reconnect timer.
NextTeardown ==
  \/ \E r \in Rooms, tok \in Tokens : SelectRoom(r, tok, MaxLive)
  \/ Unmount
  \/ \E s \in DOMAIN sockets : SocketOpen(s)
  \/ \E s \in DOMAIN sockets : SocketDrop(s)
  \/ Tick
  \/ ReconnectFire(MaxSockets)

SpecTeardown == Init /\ [][NextTeardown]_vars

\* Frames of every kind on an open socket: selections, the socket opening,
\* well-formed chat messages, frames that are only logged and malformed
\* chat messages.
NextFrames ==
  \/ \E r \in Rooms, tok \in Tokens : SelectRoom(r, tok, MaxLive)
  \/ \E s \in DOMAIN sockets : SocketOpen(s)
  \/ \E s \in DOMAIN sockets, i \in MsgIds, t \in Stored : PushChatMessage(s, i, t)
  \/ \E s \in DOMAIN sockets, kind \in Ignored : PushIgnored(s, kind)
  \/ \E s \in DOMAIN sockets, kind \in Malformed, i \in MsgIds, t \in Stored :
       PushMalformed(s, kind, i, t)

SpecFrames == Init /\ [][NextFrames]_vars

\* Chat messages and read receipts pushed on an open socket: selections,
\* the socket opening, the user's sends (which create the user's own
\* messages on the backend) and the two kinds of frame.
NextReceipts ==
  \/ \E r \in Rooms, tok \in Tokens : SelectRoom(r, tok, MaxLive)
  \/ \E s \in DOMAIN sockets : SocketOpen(s)
  \/ \E t \in Stored, i \in MsgIds : HandleSendMessage(t, i)
  \/ \E s \in DOMAIN sockets, i \in MsgIds, t \in Stored : PushChatMessage(s, i, t)
  \/ \E s \in DOMAIN sockets, i \in MsgIds : PushReadReceipt(s, i)

SpecReceipts == Init /\ [][NextReceipts]_vars

\* Typing frames of the participants pushed on an open socket, while
\* conversations are selected, connections are lost and the reconnect
\* timer runs.  A connection is lost only while a socket is left for the
\* reconnect it schedules, so that a timer that is due can always fire.
NextRemoteTyping ==
  \/ \E r \in Rooms, tok \in Tokens : SelectRoom(r, tok, MaxLive)
  \/ \E s \in DOMAIN sockets : SocketOpen(s)
  \/ \E s \in DOMAIN sockets :
       Len(sockets) + Len(timers) + 1 < MaxSockets /\ SocketDrop(s)
  \/ Tick
  \/ ReconnectFire(MaxSockets)
  \/ \E s \in DOMAIN sockets, u \in Users, b \in BOOLEAN : PushTyping(s, u, b)

SpecRemoteTyping == Init /\ [][NextRemoteTyping]_vars

\* The same with the browser's scheduling: time passes and a timer that is
\* due fires.  Nothing obliges the server to push a frame, the connection
\* to open or drop, or the user to select a conversation.
LiveRemoteTyping ==
  /\ SpecRemoteTyping
  /\ WF_vars(Tick)
  /\ WF_vars(ReconnectFire(MaxSockets))

\* Switches of conversation: selections, the sockets opening, failing and
\* closing, and the typing frames pushed on an open socket.
NextSwitch ==
  \/ \E r \in Rooms, tok \in Tokens : SelectRoom(r, tok, MaxSockets)
  \/ \E s \in DOMAIN sockets : SocketOpen(s)
  \/ \E s \in DOMAIN sockets : SocketError(s)
  \/ \E s \in DOMAIN sockets : SocketClose(s)
  \/ \E s \in DOMAIN sockets, u \in Users, b \in BOOLEAN : PushTyping(s, u, b)

SpecSwitch == Init /\ [][NextSwitch]_vars

\* The user selects a conversation while no reconnect is pending, also
\* after the reconnect timers have used every socket they may create; the
\* connection the service holds opens or is lost, the clock, the reconnect
\* timer.
NextRetrigger ==
  \/ \E r \in Rooms, tok \in Tokens :
       timers = <<>> /\ SelectRoom(r, tok, MaxSockets + 1)
  \/ \E s \in DOMAIN sockets : SocketOpen(s)
  \/ \E s \in DOMAIN sockets : SocketDrop(s)
  \/ Tick
  \/ ReconnectFire(MaxSockets)

SpecRetrigger == Init /\ [][NextRetrigger]_vars

\* Local sends answered over HTTP: selections, the socket opening, pushes
\* of stored messages, handleSendMessage and the answers to
\* POST /api/messages/.
NextFallback ==
  \/ \E r \in Rooms, tok \in Tokens : SelectRoom(r, tok, MaxLive)
  \/ \E s \in DOMAIN sockets : SocketOpen(s)
  \/ \E s \in DOMAIN sockets, i \in MsgIds, t \in Stored : PushChatMessage(s, i, t)
  \/ \E t \in Stored, i \in MsgIds : HandleSendMessage(t, i)
  \/ \E k \in DOMAIN sends : SendResolve(k)
  \/ \E k \in DOMAIN sends, em \in ErrMessages : SendFail(k, em)

SpecFallback == Init /\ [][NextFallback]_vars

\* messageAPI.getByChatRoom called with any room id and answered in any way.
NextGet == GetByChatRoomSettle

SpecGet == InitGet /\ [][NextGet]_vars

\* connect() called with any arguments, an empty conversation id or an
\* empty token included, while listeners are registered and the sockets
\* open and close.
NextArgs ==
  \/ \E r \in Rooms \cup {NoRoom}, tok \in Tokens \cup {""} :
       CallConnect(r, tok, MaxLive)
  \/ \E cat \in Categories, l \in ExtListeners : Subscribe(cat, l)
  \/ \E s \in DOMAIN sockets : SocketOpen(s)
  \/ \E s \in DOMAIN sockets : SocketClose(s)

SpecArgs == Init /\ [][NextArgs]_vars

\* The exported service used directly: a caller connects to one
\* conversation, disconnects, registers listeners and calls the functions
\* returned, while the sockets open and close.
NextApi ==
  \/ \E r \in {1}, tok \in Tokens : CallConnect(r, tok, MaxLive)
  \/ CallDisconnect
  \/ \E cat \in Categories, l \in ExtListeners : Subscribe(cat, l)
  \/ \E k \in DOMAIN hist.handles : Unsubscribe(k)
  \/ \E s \in DOMAIN sockets : SocketOpen(s)
  \/ \E s \in DOMAIN sockets : SocketClose(s)

SpecApi == Init /\ [][NextApi]_vars

\* Listeners of callers other than the ChatWindow: a caller connects,
\* registers listeners and calls the functions returned, the socket opens,
\* fails and closes and the server pushes chat messages and typing frames.
NextListeners ==
  \/ \E r \in Rooms, tok \in Tokens : CallConnect(r, tok, MaxLive)
  \/ \E cat \in Categories, l \in ExtListeners : Subscribe(cat, l)
  \/ \E k \in DOMAIN hist.handles : Unsubscribe(k)
  \/ \E s \in DOMAIN sockets : SocketOpen(s)
  \/ \E s \in DOMAIN sockets : SocketError(s)
  \/ \E s \in DOMAIN sockets : SocketClose(s)
  \/ \E s \in DOMAIN sockets, i \in MsgIds, t \in Stored : PushChatMessage(s, i, t)
  \/ \E s \in DOMAIN sockets, u \in Users, b \in BOOLEAN : PushTyping(s, u, b)

SpecListeners == Init /\ [][NextListeners]_vars

\* The fan-out of onmessage: callers connect and register listeners, the
\* socket opens and the server pushes frames of every type.
NextFanout ==
  \/ \E r \in Rooms, tok \in Tokens : CallConnect(r, tok, MaxLive)
  \/ \E cat \in Categories, l \in ExtListeners : Subscribe(cat, l)
  \/ \E s \in DOMAIN sockets : SocketOpen(s)
  \/ \E s \in DOMAIN sockets, i \in MsgIds, t \in Stored : PushChatMessage(s, i, t)
  \/ \E s \in DOMAIN sockets, i \in MsgIds : PushReadReceipt(s, i)
  \/ \E s \in DOMAIN sockets, u \in Users, b \in BOOLEAN : PushTyping(s, u, b)
  \/ \E s \in DOMAIN sockets, kind \in Ignored : PushIgnored(s, kind)

SpecFanout == Init /\ [][NextFanout]_vars

(***************************************************************************)
(* Properties                                                              *)
(***************************************************************************)
Count(view, i) == Cardinality({k \in DOMAIN view : view[k].id = i})

TypingFrame(b) == [sock |-> ws.socket, frame |-> [type |-> "typing", is_typing |-> b]]

\* C1: whatever the order in which a push and the HTTP response of a local
\* send deliver the same id, the view holds one message per id: every id a
\* push has handed to the view is held exactly once.
C1_OneMessagePerId ==
  \A i \in hist.pushed : Count(messages, i) = 1

\* C2: the close event of a socket that disconnect() closed neither
\* increments the retry counter nor sets a reconnect timer.
C2_ExplicitCloseIsSilent ==
  [][(lastStep'.op = "onclose" /\ lastStep'.explicit)
       => (ws'.reconnectAttempts = ws.reconnectAttempts /\ timers' = timers)]_vars

C4_StaleLoadIgnored ==
  [][(lastStep'.op \in {"loaded", "loadFailed"} /\ lastStep'.room # chatRoom)
       => UNCHANGED <<messages, loading, error>>]_vars

\* C5 as stated: a push whose id is already in the view leaves the length
\* unchanged and the entry of that id holds the pushed text afterwards.
C5_PushReplacesEntry ==
  [][(lastStep'.op = "chat_message" /\ lastStep'.delivered > 0 /\ lastStep'.dup)
       => /\ Len(messages') = Len(messages)
          /\ \A k \in DOMAIN messages' :
               messages'[k].id = lastStep'.msg.id
                 => messages'[k].text = lastStep'.msg.text]_vars

\* C5 as amended: a push whose id is already in the view is ignored: the
\* view, and so the stored entry of that id, is unchanged.
C5_PushOfKnownIdIgnored ==
  [][(lastStep'.op = "chat_message" /\ lastStep'.delivered > 0 /\ lastStep'.dup)
       => messages' = messages]_vars

C5_Witness ==
  /\ lastStep.op = "chat_message"
  /\ lastStep.delivered > 0
  /\ lastStep.dup
  /\ Len(messages) = 2
  /\ \E k \in DOMAIN messages :
       messages[k].id = lastStep.msg.id /\ messages[k].text # lastStep.msg.text

\* C6 as stated: at most one read_receipt frame is sent per message id,
\* however often the id is pushed.
C6_OneReceiptPerId ==
  \A i \in Others : hist.receipts[i] <= 1

\* C6 as amended: every push of a message of another user that reaches the
\* message listener sends one read_receipt frame for its id, a repeated
\* push of the same id included; a push of an own message sends none.
C6_ReceiptPerPush ==
  lastStep.op = "chat_message" =>
    lastStep.sent =
      IF lastStep.msg.sender # Me
        THEN Repeat(<<[sock |-> ws.socket,
                       frame |-> [type |-> "read_receipt",
                                  message_id |-> lastStep.msg.id]]>>,
                    lastStep.delivered)
        ELSE <<>>

C6_Witness ==
  /\ lastStep.op = "chat_message"
  /\ lastStep.msg.id \in Others
  /\ lastStep.dup
  /\ Len(lastStep.sent) = 1
  /\ hist.receipts[lastStep.msg.id] = 2

\* C7 as stated: within one typing burst at most one typing(true) frame is
\* sent.
C7_OneStartPerBurst ==
  hist.starts <= 1

\* C7 as amended: every keystroke handled while the connection is open sends
\* one typing(true) frame, so a burst sends one per keystroke.
C7_StartPerKeystroke ==
  lastStep.op = "keystroke" =>
    lastStep.sent = IF lastStep.pre = "OPEN" THEN <<TypingFrame(TRUE)>> ELSE <<>>

C7_Witness ==
  /\ lastStep.op = "keystroke"
  /\ lastStep.pre = "OPEN"
  /\ hist.keys = MaxKeys
  /\ hist.starts = MaxKeys

\* C8 as stated: the stop timer sends exactly one typing(false) frame, and
\* only once 3000 ms have passed without a keystroke; at most one stop
\* timer is pending.
C8_OneStopAfterQuiet ==
  /\ Cardinality(PendingTyping(timers)) <= 1
  /\ lastStep.op = "typingTimer" =>
       /\ Len(lastStep.sent) = 1
       /\ hist.sinceKey >= typingStopDelay

\* C8 as amended: at most one stop timer is pending; it runs 3000 ms or more
\* after the last keystroke that was handled while the connection was open,
\* and it sends one typing(false) frame if the connection is open at that
\* moment, none otherwise.
C8_StopTimer ==
  /\ Cardinality(PendingTyping(timers)) <= 1
  /\ lastStep.op = "typingTimer" =>
       /\ hist.sinceTyped >= typingStopDelay
       /\ lastStep.sent =
            IF lastStep.pre = "OPEN" THEN <<TypingFrame(FALSE)>> ELSE <<>>

C8_Witness ==
  /\ lastStep.op = "typingTimer"
  /\ lastStep.sent = <<TypingFrame(FALSE)>>
  /\ hist.keys >= 2
  /\ hist.sinceKey >= typingStopDelay
  /\ PendingTyping(timers) = {}

\* C9: when the response of an HTTP send arrives for the active
\* conversation, the view holds the returned message exactly once.
C9_HttpSendHeldOnce ==
  (lastStep.op = "sent" /\ mounted /\ lastStep.room = chatRoom)
    => Count(messages, lastStep.msg.id) = 1

\* C10: sendMessage returns true exactly when the connection is open, and
\* then writes one chat_message frame with the text; in every other state
\* it returns false and writes nothing.
C10_SendOnlyWhenOpen ==
  lastStep.op = "sendMessage" =>
    /\ lastStep.ret = (IF lastStep.pre = "OPEN" THEN "true" ELSE "false")
    /\ lastStep.sent =
         IF lastStep.pre = "OPEN"
           THEN <<[sock |-> ws.socket,
                   frame |-> [type |-> "chat_message",
                              message |-> lastStep.msg.text]]>>
           ELSE <<>>

C10_Witness ==
  /\ lastStep.op = "sendMessage"
  /\ lastStep.pre = "OPEN"
  /\ lastStep.ret = "true"
  /\ Len(lastStep.sent) = 1

\* C11: while the ChatWindow shows a conversation and the service's socket
\* is open (after an automatic reconnect as after the first connect), the
\* message, typing and connection listeners are registered, and a chat
\* message pushed on that socket is delivered to a listener.
C11_ListenersSurviveReconnect ==
  /\ (/\ mounted
      /\ ws.socket # 0
      /\ sockets[ws.socket].readyState = "OPEN")
       => /\ ws.messageHandlers # <<>>
          /\ ws.typingHandlers # <<>>
          /\ ws.connectionHandlers # <<>>
  /\ (/\ mounted
      /\ lastStep.op = "chat_message"
      /\ lastStep.sock = ws.socket)
       => lastStep.delivered > 0

Live == {s \in DOMAIN sockets : sockets[s].readyState \in {"CONNECTING", "OPEN"}}

\* C13: in every reachable state at most one socket is connecting or open,
\* and it is the socket the service holds: connect() has asked the socket
\* it held to close before it creates the new one.
C13_AtMostOneLiveSocket ==
  /\ Cardinality(Live) <= 1
  /\ \A s \in Live : s = ws.socket

\* connect() ran while the service held an open socket: that socket is
\* closing and the new one is connecting.
C13_Witness ==
  /\ lastStep.op = "reconnect"
  /\ lastStep.pre = "OPEN"
  /\ Live = {ws.socket}
  /\ \E s \in DOMAIN sockets :
       s # ws.socket /\ sockets[s].readyState = "CLOSING" /\ sockets[s].closeCalled

StatusTag(op) ==
  IF op = "onopen" THEN "connected"
  ELSE IF op = "onclose" THEN "disconnected"
  ELSE "error"

\* C18: every open, close or error event of the socket the service holds,
\* while the ChatWindow shows a conversation, reaches the conversation's
\* connection listener with the matching tag (connected, disconnected,
\* error), which the listener stores as the connection status.
C18_TransitionNotifies ==
  (/\ mounted
   /\ lastStep.op \in {"onopen", "onclose", "onerror"}
   /\ lastStep.sock = ws.socket)
    => /\ lastStep.delivered > 0
       /\ connectionStatus = StatusTag(lastStep.op)

\* C20: after a switch of conversation, no callback of a socket the service
\* no longer holds (a frame pushed on it, its error event, its close event)
\* is delivered to a listener: the listeners registered are those of the
\* new conversation.
C20_StaleSocketIsSilent ==
  (/\ mounted
   /\ selects > 1
   /\ lastStep.op \in {"chat_message", "onerror", "onclose"}
   /\ lastStep.sock # ws.socket)
    => lastStep.delivered = 0

\* C12: after disconnect() the service holds no socket, the socket it held
\* has been asked to close (it is neither connecting nor open) and the
\* three registries are empty; disconnect() applied again to that state
\* yields the same state, and disconnect() called when the service holds
\* no socket and no listener changes nothing.
C12_DisconnectResets ==
  [][lastStep'.op = "disconnect"
       => /\ ws'.socket = 0
          /\ AllRegistered(ws') = <<>>
          /\ ws.socket # 0
               => sockets'[ws.socket].readyState \notin {"CONNECTING", "OPEN"}
          /\ disconnect(ws') = ws'
          /\ disconnectSockets(ws', sockets') = sockets'
          /\ (ws.socket = 0 /\ AllRegistered(ws) = <<>>)
               => UNCHANGED <<ws, sockets, timers>>]_vars

\* disconnect() was called while the service held an open socket and
\* listeners: the socket is closing.
C12_Witness ==
  /\ lastStep.op = "disconnect"
  /\ lastStep.pre = "OPEN"
  /\ Len(lastStep.registered) > 1
  /\ sockets[lastStep.sock].readyState = "CLOSING"
  /\ ws = NewService

\* C14: connect() called with an empty conversation id or an empty token
\* does nothing: no socket is created, the socket the service holds is not
\* closed, and the registries and the retry counter keep their values.
C14_ConnectRejectsEmptyArgs ==
  [][(/\ lastStep'.op = "connect"
      /\ (lastStep'.room = NoRoom \/ lastStep'.token = ""))
       => UNCHANGED <<ws, sockets>>]_vars

\* C15: a frame dispatched to the listeners of its category is handed to
\* every listener registered for that category, also when one of them
\* throws.
C15_ThrowingListenerIsolated ==
  lastStep.op \in {"chat_message", "read_receipt", "typing"}
    => lastStep.invoked = lastStep.registered

OpCategory(op) ==
  IF op \in {"chat_message", "read_receipt"} THEN "message"
  ELSE IF op = "typing" THEN "typing"
  ELSE "connection"

Times(q, x) == Cardinality({k \in DOMAIN q : q[k] = x})

\* C16: every registration whose unsubscribe function has not been called
\* (and that disconnect() has not cleared) is in place, also when the same
\* listener was registered twice and one of the two functions was called;
\* and an event is handed to a listener once per such registration.
C16_RegistrationsIndependent ==
  /\ \A k \in DOMAIN hist.handles :
       Times(Registry(ws, hist.handles[k].cat), hist.handles[k].listener) > 0
  /\ (/\ lastStep.op \in {"chat_message", "typing", "onopen", "onerror", "onclose"}
      /\ ~lastStep.threw)
       => \A l \in ExtListeners :
            Times(lastStep.invoked, l) =
              Times(hist.handles, [cat |-> OpCategory(lastStep.op), listener |-> l])

\* the room ids the claim names: null, undefined and those that are not
\* numeric (the string 'undefined', a string that is not a number, NaN)
NotNumeric ==
  {JsNull, JsUndefined, JsNaN, JsString("undefined"), JsString("abc")}

C21_NoReconnectAfterTeardown ==
  lastStep.op = "reconnect" => (mounted /\ lastStep.room = chatRoom)

\* C22: the response to an HTTP send that was started under another
\* conversation than the one shown when it arrives is discarded: the view
\* is left as it was.
C22_StaleSendDiscarded ==
  [][(lastStep'.op = "sent" /\ lastStep'.room # chatRoom)
       => messages' = messages]_vars

\* C23: the close event of a socket that close() was not called on, with
\* the retry counter below 5, adds one to the counter and sets one timer
\* that calls connect() after 3000 ms with the conversation id and token
\* of the closed socket; with the counter at 5 it changes neither the
\* counter nor the timers; the counter is within 0..5 in every state.
C23_CloseCountsAndSchedules ==
  /\ [](ws.reconnectAttempts \in 0..maxReconnectAttempts)
  /\ [][(lastStep'.op = "onclose" /\ ~lastStep'.explicit)
         => IF ws.reconnectAttempts < 5
              THEN /\ ws'.reconnectAttempts = ws.reconnectAttempts + 1
                   /\ timers' = Append(timers,
                        [kind |-> "reconnect", left |-> 3000,
                         roomId |-> sockets[lastStep'.sock].roomId,
                         token |-> sockets[lastStep'.sock].token,
                         ref |-> FALSE])
              ELSE /\ ws'.reconnectAttempts = 5
                   /\ timers' = timers]_vars

\* the sixth loss in a row: the counter is at 5 and nothing was scheduled
C23_Witness ==
  /\ lastStep.op = "onclose"
  /\ ~lastStep.explicit
  /\ ~lastStep.scheduled
  /\ ws.reconnectAttempts = 5
  /\ timers = <<>>

\* C24: the open event of a socket sets the retry counter to zero, so
\* that each of the first 5 losses of the connection since the last open
\* event sets a reconnect timer.
C24_OpenResetsCounter ==
  /\ [][lastStep'.op = "onopen" => ws'.reconnectAttempts = 0]_vars
  /\ []((/\ lastStep.op = "onclose"
         /\ ~lastStep.explicit
         /\ hist.closes <= maxReconnectAttempts)
          => lastStep.scheduled)

\* a socket created by the reconnect timer opened: the counter, which the
\* loss before it had raised, is 0
C24_Witness ==
  /\ lastStep.op = "onopen"
  /\ selects = 1
  /\ lastStep.sock > 1
  /\ lastStep.sock = ws.socket
  /\ ws.reconnectAttempts = 0

\* C25: a connect() issued by the user makes the conversation recoverable
\* again: the first loss of the connection it created, before or after
\* that connection opened, sets a reconnect timer.
C25_RetriggerRestoresRetries ==
  (/\ lastStep.op = "onclose"
   /\ ~lastStep.explicit
   /\ lastStep.sock = ws.socket
   /\ hist.unexp = 1)
    => lastStep.scheduled

\* C26: a change of the conversation runs the cleanup before the setup:
\* afterwards the socket the service held has been asked to close, nobody
\* is shown as typing, the connection status is "disconnected", the load
\* of the new conversation is in flight, the service holds a new socket
\* to the new conversation and the registries hold the listeners of this
\* selection and no others.
C26_CleanupBeforeSetup ==
  [][lastStep'.op = "select"
       => /\ typingUsers' = {}
          /\ connectionStatus' = "disconnected"
          /\ ws.socket # 0
               => sockets'[ws.socket].readyState \notin {"CONNECTING", "OPEN"}
          /\ loads' = Append(loads, chatRoom')
          /\ ws'.socket = Len(sockets) + 1
          /\ sockets'[ws'.socket].roomId = chatRoom'
          /\ sockets'[ws'.socket].readyState = "CONNECTING"
          /\ ws'.messageHandlers = <<selects'>>
          /\ ws'.typingHandlers = <<selects'>>
          /\ ws'.connectionHandlers = <<selects'>>]_vars

\* the second conversation was selected while the socket of the first was
\* connecting or open
C26_Witness ==
  /\ lastStep.op = "select"
  /\ selects = 2
  /\ ws.socket = 2
  /\ sockets[1].readyState = "CLOSING"
  /\ sockets[1].closeCalled
  /\ sockets[1].roomId # chatRoom
  /\ ws.typingHandlers = <<2>>

\* C27: in every reachable state the view is ordered by timestamp
\* ascending, whatever the order in which the load, the pushes and the
\* responses to HTTP sends delivered the messages.
C27_ViewOrderedByTimestamp ==
  \A j, k \in DOMAIN messages :
    j < k => Timestamp(messages[j]) <= Timestamp(messages[k])

\* C28: a frame of an unrecognized type, and a chat_message frame whose
\* payload is malformed, leave the view and the connection state as they
\* were.
C28_BadFrameChangesNothing ==
  [][lastStep'.op \in {"unknown", "malformed"}
       => UNCHANGED <<messages, ws, sockets, connectionStatus>>]_vars

\* C29: a frame that cannot be decoded calls no listener and changes
\* neither the service (socket, registries, retry counter) nor the sockets,
\* the timers or the ChatWindow's state; a well-formed chat message that
\* follows it is handed to the listeners registered and appended to the
\* view.
C29_UndecodableDropped ==
  /\ [][lastStep'.op = "undecodable"
         => /\ lastStep'.invoked = <<>>
            /\ UNCHANGED <<ws, sockets, timers, compVars>>]_vars
  /\ [][(lastStep.op = "undecodable" /\ lastStep'.op = "chat_message")
         => /\ lastStep'.invoked = ws.messageHandlers
            /\ messages' = onChatMessage(messages, lastStep'.msg)]_vars

\* an undecodable frame arrived on the open socket of the conversation
\* shown, with listeners registered and a message in the view
C29_Witness ==
  /\ lastStep.op = "undecodable"
  /\ lastStep.sock = ws.socket
  /\ ws.messageHandlers # <<>>
  /\ messages # <<>>
  /\ Len(messages) < MaxView

\* C30: when a connectionStatus listener throws during the close callback
\* of an unexpected close below the ceiling, the retry counter is still
\* incremented and one reconnect is still scheduled.
C30_ThrowingListenerKeepsRetry ==
  [][(lastStep'.op = "onclose" /\ ~lastStep'.explicit
        /\ ws.reconnectAttempts < maxReconnectAttempts)
       => /\ ws'.reconnectAttempts = ws.reconnectAttempts + 1
          /\ Len(timers') = Len(timers) + 1]_vars

\* C31: a read receipt for id i that reaches the message listener sets the
\* read flag of the entries with id i and changes nothing else: the view
\* keeps its length and every entry keeps its id, sender and text, entries
\* of other ids keep their flag, a receipt for an id not in the view leaves
\* the view as it was, and no other state of the ChatWindow or of the
\* service changes.
C31_ReceiptOnlySetsFlag ==
  [][lastStep'.op = "read_receipt"
       => /\ Len(messages') = Len(messages)
          /\ \A k \in DOMAIN messages :
               /\ messages'[k].id = messages[k].id
               /\ messages'[k].sender = messages[k].sender
               /\ messages'[k].text = messages[k].text
               /\ messages'[k].is_read =
                    (messages[k].is_read
                       \/ (lastStep'.delivered > 0
                             /\ messages[k].id = lastStep'.msg.id))
          /\ (~HasId(messages, lastStep'.msg.id) => messages' = messages)
          /\ UNCHANGED <<ws, sockets, timers, typingUsers, loading, error,
                         connectionStatus, loads, sends>>]_vars

\* a receipt marked one of two entries of the view
C31_Witness ==
  /\ lastStep.op = "read_receipt"
  /\ lastStep.delivered > 0
  /\ Len(messages) = 2
  /\ \E j, k \in DOMAIN messages :
       /\ messages[j].id = lastStep.msg.id /\ messages[j].is_read
       /\ messages[k].id # lastStep.msg.id /\ ~messages[k].is_read

\* C32: a pushed chat message that reaches the message listener makes the
\* listener write a read_receipt frame for its id to the service's socket
\* if and only if its sender is not the local user.
C32_ReceiptIffOtherSender ==
  [][(lastStep'.op = "chat_message" /\ lastStep'.delivered > 0)
       => ((\E k \in DOMAIN lastStep'.sent :
              lastStep'.sent[k] =
                [sock |-> ws.socket,
                 frame |-> [type |-> "read_receipt",
                            message_id |-> lastStep'.msg.id]])
           <=> lastStep'.msg.sender # Me)]_vars

\* the echo of the user's own message was pushed and no frame was written
C32_Witness ==
  /\ lastStep.op = "chat_message"
  /\ lastStep.delivered > 0
  /\ lastStep.msg.sender = Me
  /\ lastStep.sent = <<>>
  /\ HasId(messages, lastStep.msg.id)

\* C33: a typing frame delivered to the typing listener from a user other
\* than the local one adds that user to typingUsers when is_typing is true
\* and removes it when is_typing is false; a typing frame from the local
\* user leaves typingUsers as it was; typingUsers never holds the local
\* user.
C33_TypingSetFollowsOthers ==
  /\ [](Me \notin typingUsers)
  /\ [][(lastStep'.op = "typing" /\ lastStep'.delivered > 0)
         => typingUsers' =
              IF lastStep'.data.user_id = Me THEN typingUsers
              ELSE IF lastStep'.data.is_typing
                THEN typingUsers \cup {lastStep'.data.username}
                ELSE typingUsers \ {lastStep'.data.username}]_vars

\* the local user's own typing frame was delivered while the other
\* participant is shown as typing
C33_Witness ==
  /\ lastStep.op = "typing"
  /\ lastStep.delivered > 0
  /\ lastStep.data.user_id = Me
  /\ lastStep.data.is_typing
  /\ typingUsers = {Other}

\* C34: a user shown as typing is eventually no longer shown as typing,
\* whether or not a stop frame of that user arrives.
C34_TypingEntryExpires ==
  (Other \in typingUsers) ~> (Other \notin typingUsers)

\* C35: in the state right after handleSendMessage has issued a send, over
\* the socket or over HTTP, the view holds one more entry, authored by the
\* local user.
C35_SendInsertsAtOnce ==
  [][lastStep'.op = "send"
       => /\ Len(messages') = Len(messages) + 1
          /\ messages'[Len(messages')].sender = Me]_vars

\* C36: the listeners a decoded frame is handed to are exactly those
\* registered for its category, each once and in the order of their
\* registration: the message listeners for chat_message and read_receipt
\* frames, the typing listeners for typing frames, none for
\* connection_established frames.
C36_FanOutByCategory ==
  /\ lastStep.op \in {"chat_message", "read_receipt"}
       => lastStep.invoked = ws.messageHandlers
  /\ lastStep.op = "typing" => lastStep.invoked = ws.typingHandlers
  /\ lastStep.op = "connection_established" => lastStep.invoked = <<>>

\* C37: a connection of the service that is connecting or open belongs to
\* the conversation of the ChatWindow's latest connect() call, and there is
\* none once the ChatWindow has called disconnect() without a connect()
\* after it (it is unmounted).
C37_ConnectionIsForActiveRoom ==
  (ws.socket # 0 /\ sockets[ws.socket].readyState \in {"CONNECTING", "OPEN"})
    => (mounted /\ sockets[ws.socket].roomId = chatRoom)

\* C38: a chat message the push of the active conversation's connection
\* has just handed to the message listener is still in the view, by id,
\* after the next step, unless that step selects a conversation; the step
\* may be the answer to the conversation's bulk load.
C38_PushedMessageKept ==
  [][(/\ lastStep.op = "chat_message"
      /\ lastStep.delivered > 0
      /\ lastStep.sock = ws.socket
      /\ sockets[ws.socket].roomId = chatRoom
      /\ lastStep'.op # "select")
       => HasId(messages', lastStep.msg.id)]_vars

====
